---- MODULE Spec2Model ----
(***************************************************************************)
(* Model of the prompt-template loading layer:                             *)
(*   prompt_management_methods/prompt_template_loader.py                   *)
(*   prompt_management_methods/base_prompt_template_factory.py             *)
(*   prompt_management_methods/safe_format_message_prompt_template.py      *)
(*   load_prompt_template.py                                               *)
(*                                                                         *)
(* A path is the sequence of its pathlib parts (an absolute path starts    *)
(* with the part "/"); a path given as a string is the sequence of its     *)
(* "/"-separated segments, which Path() normalises.  A template text is a  *)
(* record naming the variables it references in jinja2 syntax ({{ v }})    *)
(* and in f-string syntax ({v}).  A file read is answered by the file      *)
(* system with a text or with "no such file".                              *)
(***************************************************************************)
EXTENDS Naturals, Sequences, FiniteSets, TLC

VARIABLES
    prompt_templates_dir,  \* BasePromptTemplateFactory.prompt_templates_dir
    init_arg,              \* the argument the factory was constructed with
    sub_dirs,              \* the set_sub_dir arguments applied so far, in order
    op,                    \* the last call: its name and arguments
    reads,                 \* the file reads the last call performed, in order
    ret                    \* what the last call returned (or the error it raised)

vars == <<prompt_templates_dir, init_arg, sub_dirs, op, reads, ret>>

-----------------------------------------------------------------------------
(* Bounds and input sets *)

MaxSubDirCalls == 2

Names == {"a", "b"}
Variables == {"x", "y"}
Value == "v"
Keys == {"history"}
NotGiven == "<not given>"

\* template texts: the variables referenced in each syntax
Texts ==
    { [id |-> "plain",  jinja |-> {},         fstr |-> {}],
      [id |-> "one",    jinja |-> {"x"},      fstr |-> {}],
      [id |-> "two",    jinja |-> {"x", "y"}, fstr |-> {}],
      [id |-> "braces", jinja |-> {"y"},      fstr |-> {"x"}] }

NoFile == [exists |-> FALSE]
Files == {[exists |-> TRUE, text |-> t] : t \in Texts} \cup {NoFile}

\* path strings, as "/"-separated segments
DirStrings ==
    { <<"/", "prompts">>, <<"prompts", ".", "agent">>, <<>> }
SubDirStrings ==
    { <<"role">>, <<"ablation", "", "v1">>, <<"/", "abs">> }
FileStrings ==
    { <<"/", "prompts", "t.j2">>, <<"prompts", ".", "t.j2">> }

NoneValue == [cls |-> "NoneType"]
Error(type) == [cls |-> "Error", type |-> type]

\* keyword-argument dicts over Variables, and None
Dicts == UNION {[S -> {Value}] : S \in SUBSET Variables}
NoneDict == [isNone |-> TRUE]
Dict(d) == [isNone |-> FALSE, d |-> d]
EmptyDict == [v \in {} |-> Value]
Kwargs == {Dict(d) : d \in Dicts} \cup {NoneDict}

-----------------------------------------------------------------------------
(* pathlib *)

\* Path(str): "." and empty segments are dropped, ".." and names kept
Path(s) == SelectSeq(s, LAMBDA seg : seg # "." /\ seg # "")

IsAbsolute(p) == Len(p) > 0 /\ p[1] = "/"

\* Path.__truediv__: an absolute right operand replaces the left one
Div(p, q) == IF IsAbsolute(q) THEN q ELSE p \o q

\* Path(__file__).parent of base_prompt_template_factory.py
ModuleDir == <<"/", "site", "prompt_management_methods">>

-----------------------------------------------------------------------------
(* file reads *)

Read(path, encoding) == [path |-> path, encoding |-> encoding]

\* Path(path).read_text(encoding=...), open(path, 'r', encoding=...).read()
read_text(file) ==
    IF file.exists THEN [cls |-> "str", text |-> file.text]
    ELSE Error("FileNotFoundError")

IsError(v) == v.cls = "Error"

-----------------------------------------------------------------------------
(* the library's template objects *)

get_template_variables(template, template_format) ==
    IF template_format = "jinja2" THEN template.jinja ELSE template.fstr

\* PromptTemplate / *MessagePromptTemplate .from_template
from_template(cls, template, template_format) ==
    [ cls |-> cls,
      template |-> template,
      template_format |-> template_format,
      input_variables |-> get_template_variables(template, template_format) ]

MessagesPlaceholder(variable_name) ==
    [ cls |-> "MessagesPlaceholder",
      variable_name |-> variable_name,
      input_variables |-> {variable_name} ]

MessageClassOf(template_cls) ==
    CASE template_cls = "SystemMessagePromptTemplate" -> "SystemMessage"
      [] template_cls = "HumanMessagePromptTemplate" -> "HumanMessage"
      [] template_cls = "AIMessagePromptTemplate" -> "AIMessage"

\* jinja2 rendering: a variable with no value renders as the empty string
Render(template, variables, d) ==
    [ text |-> template,
      filled |-> [v \in variables |-> IF v \in DOMAIN d THEN d[v] ELSE ""] ]

\* message_prompt_template.format(**d): a message, no validation of d
format(message_prompt_template, d) ==
    [ cls |-> MessageClassOf(message_prompt_template.cls),
      content |-> Render(message_prompt_template.template,
                         message_prompt_template.input_variables, d),
      input_variables |-> {} ]

RECURSIVE UnionVars(_)
UnionVars(messages) ==
    IF messages = <<>> THEN {}
    ELSE Head(messages).input_variables \cup UnionVars(Tail(messages))

\* ChatPromptTemplate(messages=...) / ChatPromptTemplate.from_messages
ChatPromptTemplate(messages, template_format) ==
    [ cls |-> "ChatPromptTemplate",
      messages |-> messages,
      template_format |-> template_format,
      input_variables |-> UnionVars(messages) ]

IsTemplate(m) ==
    m.cls \in {"SystemMessagePromptTemplate", "HumanMessagePromptTemplate",
               "AIMessagePromptTemplate"}

\* chat_prompt_template.invoke(input=d): the input is validated against the
\* input variables before any message is formatted
invoke(chat_prompt_template, d) ==
    IF chat_prompt_template.input_variables \ DOMAIN d # {}
    THEN Error("KeyError")
    ELSE [ cls |-> "ChatPromptValue",
           messages |->
             [ i \in DOMAIN chat_prompt_template.messages |->
                 LET m == chat_prompt_template.messages[i]
                 IN  IF IsTemplate(m) THEN format(m, d) ELSE m ] ]

\* PromptTemplate.from_file(template_file, template_format, encoding)
from_file(template_file, template_format, encoding, file) ==
    LET template == read_text(file)
    IN  [ reads |-> <<Read(Path(template_file), encoding)>>,
          ret |-> IF IsError(template) THEN template
                  ELSE from_template("PromptTemplate", template.text,
                                     template_format) ]

-----------------------------------------------------------------------------
(* PromptTemplateLoader: each loader yields its file reads and its result *)

load_prompt_template_from_j2(prompt_template_path, file) ==
    from_file(prompt_template_path, "jinja2", "utf-8", file)

load_system_message_prompt_template_from_j2(system_message_prompt_template_path, file) ==
    LET template == read_text(file)
    IN  [ reads |-> <<Read(Path(system_message_prompt_template_path), "utf-8")>>,
          ret |-> IF IsError(template) THEN template
                  ELSE from_template("SystemMessagePromptTemplate",
                                     template.text, "jinja2") ]

\* mutant: template_format left to the library's default, "f-string"
load_human_message_prompt_template_from_j2_default_format(human_message_prompt_template_path, file) ==
    LET template == read_text(file)
    IN  [ reads |-> <<Read(Path(human_message_prompt_template_path), "utf-8")>>,
          ret |-> IF IsError(template) THEN template
                  ELSE from_template("HumanMessagePromptTemplate",
                                     template.text, "f-string") ]

load_human_message_prompt_template_from_j2(human_message_prompt_template_path, file) ==
    LET template == read_text(file)
    IN  [ reads |-> <<Read(Path(human_message_prompt_template_path), "utf-8")>>,
          ret |-> IF IsError(template) THEN template
                  ELSE from_template("HumanMessagePromptTemplate",
                                     template.text, "jinja2") ]

load_ai_message_prompt_template_from_j2(ai_message_prompt_template_path, file) ==
    LET template == read_text(file)
    IN  [ reads |-> <<Read(Path(ai_message_prompt_template_path), "utf-8")>>,
          ret |-> IF IsError(template) THEN template
                  ELSE from_template("AIMessagePromptTemplate",
                                     template.text, "jinja2") ]

\* mutant: an unknown message type raises
load_message_prompt_template_from_j2_raises(message_prompt_template_path, message_type, file) ==
    IF message_type = "system"
    THEN load_system_message_prompt_template_from_j2(message_prompt_template_path, file)
    ELSE IF message_type = "human"
    THEN load_human_message_prompt_template_from_j2(message_prompt_template_path, file)
    ELSE IF message_type = "ai"
    THEN load_ai_message_prompt_template_from_j2(message_prompt_template_path, file)
    ELSE [reads |-> <<>>, ret |-> Error("ValueError")]

load_message_prompt_template_from_j2(message_prompt_template_path, message_type, file) ==
    IF message_type = "system"
    THEN load_system_message_prompt_template_from_j2(message_prompt_template_path, file)
    ELSE IF message_type = "human"
    THEN load_human_message_prompt_template_from_j2(message_prompt_template_path, file)
    ELSE IF message_type = "ai"
    THEN load_ai_message_prompt_template_from_j2(message_prompt_template_path, file)
    ELSE [reads |-> <<>>, ret |-> NoneValue]

\* mutant: another default key
PlaceHolderKey_messages(message_place_holder_key) ==
    IF message_place_holder_key = NotGiven THEN "messages"
    ELSE message_place_holder_key

\* the default value of message_place_holder_key
PlaceHolderKey(message_place_holder_key) ==
    IF message_place_holder_key = NotGiven THEN "chat_history"
    ELSE message_place_holder_key

load_chat_prompt_template_from_j2(system_message_prompt_template_path, message_place_holder_key, file) ==
    LET loaded == load_system_message_prompt_template_from_j2(
                      system_message_prompt_template_path, file)
    IN  [ reads |-> loaded.reads,
          ret |-> IF IsError(loaded.ret) THEN loaded.ret
                  ELSE ChatPromptTemplate(
                         << loaded.ret,
                            MessagesPlaceholder(PlaceHolderKey(message_place_holder_key)) >>,
                         "jinja2") ]

\* the truth value of a dict or None
Truthy(kwargs) == ~kwargs.isNone /\ DOMAIN kwargs.d # {}

\* mutant: no handling of None: format(**None) raises TypeError
safe_load_chat_prompt_template_from_j2_unguarded(system_message_prompt_template_path, system_message_prompt_template_format_kwargs, message_place_holder_key, file) ==
    LET loaded == load_system_message_prompt_template_from_j2(
                      system_message_prompt_template_path, file)
    IN  [ reads |-> loaded.reads,
          ret |-> IF IsError(loaded.ret) THEN loaded.ret
                  ELSE IF system_message_prompt_template_format_kwargs.isNone
                  THEN Error("TypeError")
                  ELSE ChatPromptTemplate(
                         << format(loaded.ret,
                                   system_message_prompt_template_format_kwargs.d),
                            MessagesPlaceholder(PlaceHolderKey(message_place_holder_key)) >>,
                         "jinja2") ]

safe_load_chat_prompt_template_from_j2(system_message_prompt_template_path, system_message_prompt_template_format_kwargs, message_place_holder_key, file) ==
    LET loaded == load_system_message_prompt_template_from_j2(
                      system_message_prompt_template_path, file)
        system_message ==
            IF Truthy(system_message_prompt_template_format_kwargs)
            THEN format(loaded.ret, system_message_prompt_template_format_kwargs.d)
            ELSE format(loaded.ret, EmptyDict)
    IN  [ reads |-> loaded.reads,
          ret |-> IF IsError(loaded.ret) THEN loaded.ret
                  ELSE ChatPromptTemplate(
                         << system_message,
                            MessagesPlaceholder(PlaceHolderKey(message_place_holder_key)) >>,
                         "jinja2") ]

load_prompt_template_from_txt(prompt_template_path, file) ==
    from_file(prompt_template_path, "f-string", "utf-8", file)

load_original_txt(file_path, file) ==
    [ reads |-> <<Read(Path(file_path), "utf-8")>>,
      ret |-> read_text(file) ]

\* load_prompt_template.py: open(path, 'r', encoding='utf-8').read()
load_prompt_template(prompt_template_path, file) ==
    [ reads |-> <<Read(prompt_template_path, "utf-8")>>,
      ret |-> read_text(file) ]

-----------------------------------------------------------------------------
(* safe_format_message_prompt_template.py *)

\* mutant: every template formatted directly, with no validation of the input
safe_format_message_prompt_template_direct(message_prompt_templates, format_kwargs) ==
    [ reads |-> <<>>,
      ret |-> [ cls |-> "list",
                messages |->
                  [ i \in DOMAIN message_prompt_templates |->
                      LET m == message_prompt_templates[i]
                      IN  IF IsTemplate(m) THEN format(m, format_kwargs) ELSE m ] ] ]

safe_format_message_prompt_template(message_prompt_templates, format_kwargs) ==
    LET chat_prompt_template == ChatPromptTemplate(message_prompt_templates, "f-string")
        chat_prompt_value == invoke(chat_prompt_template, format_kwargs)
    IN  [ reads |-> <<>>,
          ret |-> IF IsError(chat_prompt_value) THEN chat_prompt_value
                  ELSE [cls |-> "list", messages |-> chat_prompt_value.messages] ]

-----------------------------------------------------------------------------
(* BasePromptTemplateFactory: each method yields its file reads and result *)

NoneArg == [isNone |-> TRUE]
DirArg(s) == [isNone |-> FALSE, s |-> s]
InitArgs == {DirArg(s) : s \in DirStrings} \cup {NoneArg}

\* mutant: the working directory when no directory is given
BasePromptTemplateFactory_init_cwd(arg) ==
    IF arg.isNone THEN Path(<<".">>) ELSE Path(arg.s)

BasePromptTemplateFactory_init(arg) ==
    IF arg.isNone THEN ModuleDir ELSE Path(arg.s)

get_chat_prompt_template(self_dir, system_message_prompt_template_name, file) ==
    load_chat_prompt_template_from_j2(
        Div(self_dir, Path(<<"system_message_prompt_template_"
                             \o system_message_prompt_template_name \o ".j2">>)),
        NotGiven, file)

safe_get_chat_prompt_template(self_dir, system_message_prompt_template_name, system_message_prompt_template_format_kwargs, file) ==
    safe_load_chat_prompt_template_from_j2(
        Div(self_dir, Path(<<"system_message_prompt_template_"
                             \o system_message_prompt_template_name \o ".j2">>)),
        system_message_prompt_template_format_kwargs, NotGiven, file)

\* mutant: the human method built on the system prefix
get_message_prompt_template_system_prefix(self_dir, message_prompt_template_name, file) ==
    load_human_message_prompt_template_from_j2(
        Div(self_dir, Path(<<"system_message_prompt_template_"
                             \o message_prompt_template_name \o ".j2">>)),
        file)

get_message_prompt_template(self_dir, message_prompt_template_name, file) ==
    load_human_message_prompt_template_from_j2(
        Div(self_dir, Path(<<"human_message_prompt_template_"
                             \o message_prompt_template_name \o ".j2">>)),
        file)

get_prompt_template(self_dir, prompt_template_name, file) ==
    load_prompt_template_from_j2(
        Div(self_dir, Path(<<prompt_template_name \o ".j2">>)), file)

\* mutant: the sub-directory assigned instead of joined
set_sub_dir_assigned(self_dir, sub_dir) == Path(sub_dir)

set_sub_dir(self_dir, sub_dir) == Div(self_dir, Path(sub_dir))

-----------------------------------------------------------------------------
(* the calls *)

MaxMessages == 2

\* what a caller holds to put in a message list: templates the loaders
\* produce, and a message
MessageItems ==
    { from_template("SystemMessagePromptTemplate", t, "jinja2")
        : t \in {u \in Texts : u.id = "one"} }
    \cup { from_template("HumanMessagePromptTemplate", t, "jinja2")
             : t \in {u \in Texts : u.id \in {"plain", "two"}} }
    \cup { format(from_template("AIMessagePromptTemplate", t, "jinja2"), EmptyDict)
             : t \in {u \in Texts : u.id = "plain"} }

MessageLists == UNION {[1..n -> MessageItems] : n \in 0..MaxMessages}

MessageTypes == {"system", "human", "ai", "tool"}

Init ==
    /\ init_arg \in InitArgs
    /\ prompt_templates_dir = BasePromptTemplateFactory_init(init_arg)
    /\ sub_dirs = <<>>
    /\ op = [name |-> "__init__"]
    /\ reads = <<>>
    /\ ret = NoneValue

GetChatPromptTemplate ==
    \E name \in Names, file \in Files :
        LET r == get_chat_prompt_template(prompt_templates_dir, name, file)
        IN  /\ op' = [name |-> "get_chat_prompt_template",
                  arg |-> name]
            /\ reads' = r.reads
            /\ ret' = r.ret
            /\ UNCHANGED <<prompt_templates_dir, init_arg, sub_dirs>>

SafeGetChatPromptTemplate ==
    \E name \in Names, kwargs \in Kwargs, file \in Files :
        LET r == safe_get_chat_prompt_template(prompt_templates_dir, name, kwargs, file)
        IN  /\ op' = [name |-> "safe_get_chat_prompt_template",
                  arg |-> name,
                  kwargs |-> kwargs,
                  key |-> NotGiven,
                  file |-> file]
            /\ reads' = r.reads
            /\ ret' = r.ret
            /\ UNCHANGED <<prompt_templates_dir, init_arg, sub_dirs>>

GetMessagePromptTemplate ==
    \E name \in Names, file \in Files :
        LET r == get_message_prompt_template(prompt_templates_dir, name, file)
        IN  /\ op' = [name |-> "get_message_prompt_template",
                  arg |-> name]
            /\ reads' = r.reads
            /\ ret' = r.ret
            /\ UNCHANGED <<prompt_templates_dir, init_arg, sub_dirs>>

GetPromptTemplate ==
    \E name \in Names, file \in Files :
        LET r == get_prompt_template(prompt_templates_dir, name, file)
        IN  /\ op' = [name |-> "get_prompt_template",
                  arg |-> name]
            /\ reads' = r.reads
            /\ ret' = r.ret
            /\ UNCHANGED <<prompt_templates_dir, init_arg, sub_dirs>>

SetSubDir ==
    \E sub_dir \in SubDirStrings :
        /\ Len(sub_dirs) < MaxSubDirCalls
        /\ prompt_templates_dir' = set_sub_dir(prompt_templates_dir, sub_dir)
        /\ sub_dirs' = Append(sub_dirs, sub_dir)
        /\ op' = [name |-> "set_sub_dir", arg |-> sub_dir]
        /\ reads' = <<>>
        /\ ret' = NoneValue
        /\ UNCHANGED init_arg

LoadPromptTemplateFromJ2 ==
    \E path \in FileStrings, file \in Files :
        LET r == load_prompt_template_from_j2(path, file)
        IN  /\ op' = [name |-> "load_prompt_template_from_j2",
                  arg |-> path,
                  file |-> file]
            /\ reads' = r.reads
            /\ ret' = r.ret
            /\ UNCHANGED <<prompt_templates_dir, init_arg, sub_dirs>>

LoadMessagePromptTemplateFromJ2 ==
    \E path \in FileStrings, message_type \in MessageTypes, file \in Files :
        LET r == load_message_prompt_template_from_j2(path, message_type, file)
        IN  /\ op' = [name |-> "load_message_prompt_template_from_j2",
                  arg |-> path,
                  message_type |-> message_type,
                  file |-> file]
            /\ reads' = r.reads
            /\ ret' = r.ret
            /\ UNCHANGED <<prompt_templates_dir, init_arg, sub_dirs>>

LoadChatPromptTemplateFromJ2 ==
    \E path \in FileStrings, key \in Keys \cup {NotGiven}, file \in Files :
        LET r == load_chat_prompt_template_from_j2(path, key, file)
        IN  /\ op' = [name |-> "load_chat_prompt_template_from_j2",
                  arg |-> path,
                  key |-> key,
                  file |-> file]
            /\ reads' = r.reads
            /\ ret' = r.ret
            /\ UNCHANGED <<prompt_templates_dir, init_arg, sub_dirs>>

SafeLoadChatPromptTemplateFromJ2 ==
    \E path \in FileStrings, kwargs \in Kwargs,
       key \in Keys \cup {NotGiven}, file \in Files :
        LET r == safe_load_chat_prompt_template_from_j2(path, kwargs, key, file)
        IN  /\ op' = [name |-> "safe_load_chat_prompt_template_from_j2",
                  arg |-> path,
                  kwargs |-> kwargs,
                  key |-> key,
                  file |-> file]
            /\ reads' = r.reads
            /\ ret' = r.ret
            /\ UNCHANGED <<prompt_templates_dir, init_arg, sub_dirs>>

LoadSystemMessagePromptTemplateFromJ2 ==
    \E path \in FileStrings, file \in Files :
        LET r == load_system_message_prompt_template_from_j2(path, file)
        IN  /\ op' = [name |-> "load_system_message_prompt_template_from_j2",
                  arg |-> path,
                  file |-> file]
            /\ reads' = r.reads
            /\ ret' = r.ret
            /\ UNCHANGED <<prompt_templates_dir, init_arg, sub_dirs>>

LoadHumanMessagePromptTemplateFromJ2 ==
    \E path \in FileStrings, file \in Files :
        LET r == load_human_message_prompt_template_from_j2(path, file)
        IN  /\ op' = [name |-> "load_human_message_prompt_template_from_j2",
                  arg |-> path,
                  file |-> file]
            /\ reads' = r.reads
            /\ ret' = r.ret
            /\ UNCHANGED <<prompt_templates_dir, init_arg, sub_dirs>>

LoadAIMessagePromptTemplateFromJ2 ==
    \E path \in FileStrings, file \in Files :
        LET r == load_ai_message_prompt_template_from_j2(path, file)
        IN  /\ op' = [name |-> "load_ai_message_prompt_template_from_j2",
                  arg |-> path,
                  file |-> file]
            /\ reads' = r.reads
            /\ ret' = r.ret
            /\ UNCHANGED <<prompt_templates_dir, init_arg, sub_dirs>>

LoadPromptTemplateFromTxt ==
    \E path \in FileStrings, file \in Files :
        LET r == load_prompt_template_from_txt(path, file)
        IN  /\ op' = [name |-> "load_prompt_template_from_txt",
                  arg |-> path,
                  file |-> file]
            /\ reads' = r.reads
            /\ ret' = r.ret
            /\ UNCHANGED <<prompt_templates_dir, init_arg, sub_dirs>>

LoadOriginalTxt ==
    \E path \in FileStrings, file \in Files :
        LET r == load_original_txt(path, file)
        IN  /\ op' = [name |-> "load_original_txt",
                  arg |-> path,
                  file |-> file]
            /\ reads' = r.reads
            /\ ret' = r.ret
            /\ UNCHANGED <<prompt_templates_dir, init_arg, sub_dirs>>

LoadPromptTemplate ==
    \E path \in FileStrings, file \in Files :
        LET r == load_prompt_template(path, file)
        IN  /\ op' = [name |-> "load_prompt_template",
                  arg |-> path,
                  file |-> file]
            /\ reads' = r.reads
            /\ ret' = r.ret
            /\ UNCHANGED <<prompt_templates_dir, init_arg, sub_dirs>>

SafeFormatMessagePromptTemplate ==
    \E messages \in MessageLists, d \in Dicts :
        LET r == safe_format_message_prompt_template(messages, d)
        IN  /\ op' = [name |-> "safe_format_message_prompt_template",
                  arg |-> messages,
                  kwargs |-> d]
            /\ reads' = r.reads
            /\ ret' = r.ret
            /\ UNCHANGED <<prompt_templates_dir, init_arg, sub_dirs>>

FactoryNext ==
    \/ GetChatPromptTemplate
    \/ SafeGetChatPromptTemplate
    \/ GetMessagePromptTemplate
    \/ GetPromptTemplate
    \/ SetSubDir

LoaderNext ==
    \/ LoadPromptTemplateFromJ2
    \/ LoadMessagePromptTemplateFromJ2
    \/ LoadChatPromptTemplateFromJ2
    \/ SafeLoadChatPromptTemplateFromJ2
    \/ LoadSystemMessagePromptTemplateFromJ2
    \/ LoadHumanMessagePromptTemplateFromJ2
    \/ LoadAIMessagePromptTemplateFromJ2
    \/ LoadPromptTemplateFromTxt
    \/ LoadOriginalTxt
    \/ LoadPromptTemplate

FormatNext == SafeFormatMessagePromptTemplate

\* the factory's methods
Spec == Init /\ [][FactoryNext]_vars

\* the loader's static methods and load_prompt_template
LoaderSpec == Init /\ [][LoaderNext]_vars

\* safe_format_message_prompt_template
FormatSpec == Init /\ [][FormatNext]_vars

-----------------------------------------------------------------------------
(* Claims *)

SystemFile(name) == "system_message_prompt_template_" \o name \o ".j2"
HumanFile(name) == "human_message_prompt_template_" \o name \o ".j2"
FileNameOf(read) == read.path[Len(read.path)]
DirOf(read) == SubSeq(read.path, 1, Len(read.path) - 1)

SystemMethods == {"get_chat_prompt_template", "safe_get_chat_prompt_template"}
FactoryLoads == SystemMethods \cup {"get_message_prompt_template", "get_prompt_template"}

\* C1: get_chat_prompt_template(N) and safe_get_chat_prompt_template(N, kwargs)
\* read exactly the file prompt_templates_dir/system_message_prompt_template_N.j2;
\* get_message_prompt_template(N) reads exactly
\* prompt_templates_dir/human_message_prompt_template_N.j2 and what it returns is
\* a human message template; a system method reads no human_ file and the
\* human method no system_ file.
C1_PrefixSelectsRole ==
    /\ op.name \in SystemMethods =>
          /\ reads = <<Read(prompt_templates_dir \o <<SystemFile(op.arg)>>, "utf-8")>>
          /\ \A n \in Names : FileNameOf(reads[1]) # HumanFile(n)
    /\ op.name = "get_message_prompt_template" =>
          /\ reads = <<Read(prompt_templates_dir \o <<HumanFile(op.arg)>>, "utf-8")>>
          /\ \A n \in Names : FileNameOf(reads[1]) # SystemFile(n)
          /\ ~IsError(ret) => ret.cls = "HumanMessagePromptTemplate"

C1_Witness ==
    /\ op.name = "get_message_prompt_template"
    /\ ret.cls = "HumanMessagePromptTemplate"
    /\ sub_dirs # <<>>

\* the required variables of a message list: those its jinja2 templates reference
RequiredVariables(messages) ==
    UNION { messages[i].template.jinja
              : i \in {j \in DOMAIN messages : IsTemplate(messages[j])} }

\* C2: safe_format_message_prompt_template ends in an error, returning no list,
\* whenever a variable some template of the list requires is not a key of
\* format_kwargs; a list it returns holds no message formatted from a template
\* with a variable left unfilled.
C2_MissingVariableRaises ==
    op.name = "safe_format_message_prompt_template" =>
        /\ RequiredVariables(op.arg) \ DOMAIN op.kwargs # {} => IsError(ret)
        /\ ret.cls = "list" =>
              /\ Len(ret.messages) = Len(op.arg)
              /\ \A i \in DOMAIN op.arg :
                    IsTemplate(op.arg[i]) =>
                        \A v \in op.arg[i].template.jinja :
                            /\ v \in DOMAIN ret.messages[i].content.filled
                            /\ ret.messages[i].content.filled[v] # ""

C2_Witness ==
    /\ op.name = "safe_format_message_prompt_template"
    /\ Len(op.arg) = 2
    /\ RequiredVariables(op.arg) = {"x", "y"}
    /\ DOMAIN op.kwargs = {"x"}
    /\ IsError(ret)

\* the directory the factory was constructed on
ConstructedOn == IF init_arg.isNone THEN ModuleDir ELSE Path(init_arg.s)

RelativeString(s) == ~(Len(s) > 0 /\ s[1] = "/")

RECURSIVE Nested(_, _)
Nested(d, subs) ==
    IF subs = <<>> THEN d ELSE Nested(d \o Path(Head(subs)), Tail(subs))

\* C3: after construction on D and set_sub_dir(s1), ..., set_sub_dir(sn) with
\* relative si, prompt_templates_dir is D/s1/.../sn, a path beneath D, and each
\* of the four loading methods reads one file, directly inside D/s1/.../sn.
C3_SubDirNests ==
    (\A i \in DOMAIN sub_dirs : RelativeString(sub_dirs[i])) =>
        /\ prompt_templates_dir = Nested(ConstructedOn, sub_dirs)
        /\ Len(prompt_templates_dir) >= Len(ConstructedOn)
        /\ SubSeq(prompt_templates_dir, 1, Len(ConstructedOn)) = ConstructedOn
        /\ op.name \in FactoryLoads =>
              /\ Len(reads) = 1
              /\ DirOf(reads[1]) = Nested(ConstructedOn, sub_dirs)

C3_Witness ==
    /\ Len(sub_dirs) = 2
    /\ \A i \in DOMAIN sub_dirs : RelativeString(sub_dirs[i])
    /\ sub_dirs[1] # sub_dirs[2]
    /\ op.name = "safe_get_chat_prompt_template"
    /\ ~IsError(ret)

\* the dict a call formats with: the given one, or none at all for None and {}
GivenDict(kwargs) == IF kwargs.isNone THEN EmptyDict ELSE kwargs.d

\* C4: safe_load_chat_prompt_template_from_j2, when the file is there, does not
\* fail for kwargs None or {}; it returns a chat prompt template of a system
\* message (no template) whose variables are rendered from exactly the given
\* kwargs, followed by the messages placeholder, and the placeholder key is
\* the only input variable left.
C4_SystemMessageFormattedAtLoad ==
    (op.name = "safe_load_chat_prompt_template_from_j2" /\ op.file.exists) =>
        /\ ret.cls = "ChatPromptTemplate"
        /\ Len(ret.messages) = 2
        /\ ret.messages[1].cls = "SystemMessage"
        /\ ret.messages[1].content.text = op.file.text
        /\ ret.messages[1].content.filled =
              [ v \in op.file.text.jinja |->
                  IF v \in DOMAIN GivenDict(op.kwargs)
                  THEN GivenDict(op.kwargs)[v] ELSE "" ]
        /\ ret.messages[2].cls = "MessagesPlaceholder"
        /\ ret.input_variables = {ret.messages[2].variable_name}
        /\ ret.messages[2].variable_name =
              IF op.key = NotGiven THEN "chat_history" ELSE op.key

C4_Witness ==
    /\ op.name = "safe_load_chat_prompt_template_from_j2"
    /\ op.kwargs.isNone
    /\ op.file.exists
    /\ op.file.text.jinja # {}
    /\ ret.cls = "ChatPromptTemplate"

TemplateClasses ==
    {"PromptTemplate", "SystemMessagePromptTemplate",
     "HumanMessagePromptTemplate", "AIMessagePromptTemplate"}

FileLoaders ==
    {"load_prompt_template_from_j2", "load_system_message_prompt_template_from_j2",
     "load_human_message_prompt_template_from_j2",
     "load_ai_message_prompt_template_from_j2", "load_chat_prompt_template_from_j2",
     "safe_load_chat_prompt_template_from_j2", "load_prompt_template_from_txt",
     "load_original_txt", "load_prompt_template"}

FormatOf(o) == IF o.name = "load_prompt_template_from_txt" THEN "f-string" ELSE "jinja2"

\* C5: every loader that reads a file reads it as UTF-8; a template built by a
\* *_from_j2 loader has template format jinja2 (its variables are the jinja2
\* ones of the text), and only load_prompt_template_from_txt builds an
\* f-string template.
C5_Utf8AndJinja2 ==
    /\ \A i \in DOMAIN reads : reads[i].encoding = "utf-8"
    /\ op.name \in FileLoaders => Len(reads) = 1
    /\ ret.cls \in TemplateClasses =>
          /\ ret.template_format = FormatOf(op)
          /\ ret.input_variables =
                IF FormatOf(op) = "jinja2" THEN ret.template.jinja
                ELSE ret.template.fstr
    /\ ret.cls = "ChatPromptTemplate" =>
          /\ ret.template_format = "jinja2"
          /\ \A i \in DOMAIN ret.messages :
                IsTemplate(ret.messages[i]) =>
                    ret.messages[i].template_format = "jinja2"

C5_Witness ==
    /\ op.name = "load_human_message_prompt_template_from_j2"
    /\ ret.cls = "HumanMessagePromptTemplate"
    /\ ret.template.jinja # ret.template.fstr
    /\ reads # <<>>

\* C6: a factory constructed with None uses the directory of the factory
\* module, constructed with a directory it uses that directory as a path, and
\* get_prompt_template(N) reads prompt_templates_dir/N.j2, no prefix added.
C6_DefaultDirAndPlainName ==
    /\ sub_dirs = <<>> =>
          /\ init_arg.isNone => prompt_templates_dir = ModuleDir
          /\ ~init_arg.isNone => prompt_templates_dir = Path(init_arg.s)
    /\ op.name = "get_prompt_template" =>
          reads = <<Read(prompt_templates_dir \o <<op.arg \o ".j2">>, "utf-8")>>

C6_Witness ==
    /\ init_arg.isNone
    /\ sub_dirs = <<>>
    /\ op.name = "get_prompt_template"
    /\ ret.cls = "PromptTemplate"

\* C7: load_chat_prompt_template_from_j2(path, key), when the file is there,
\* returns a chat prompt template of two elements: the system message prompt
\* template of the file, unformatted, its variables inputs of the result, then
\* a messages placeholder named key, chat_history when no key is given.
C7_SystemTemplateThenPlaceholder ==
    (op.name = "load_chat_prompt_template_from_j2" /\ op.file.exists) =>
        /\ ret.cls = "ChatPromptTemplate"
        /\ Len(ret.messages) = 2
        /\ ret.messages[1].cls = "SystemMessagePromptTemplate"
        /\ ret.messages[1].template = op.file.text
        /\ ret.messages[1].input_variables = op.file.text.jinja
        /\ op.file.text.jinja \subseteq ret.input_variables
        /\ ret.messages[2].cls = "MessagesPlaceholder"
        /\ ret.messages[2].variable_name =
              IF op.key = NotGiven THEN "chat_history" ELSE op.key
        /\ reads = <<Read(Path(op.arg), "utf-8")>>

C7_Witness ==
    /\ op.name = "load_chat_prompt_template_from_j2"
    /\ op.key = NotGiven
    /\ ret.cls = "ChatPromptTemplate"
    /\ ret.messages[1].input_variables = {"x", "y"}

ClassOfType(message_type) ==
    CASE message_type = "system" -> "SystemMessagePromptTemplate"
      [] message_type = "human" -> "HumanMessagePromptTemplate"
      [] message_type = "ai" -> "AIMessagePromptTemplate"

\* C8: load_message_prompt_template_from_j2(path, message_type) reads path and
\* returns the system, human or AI message template for message_type system,
\* human or ai; for another message_type it reads nothing, raises nothing and
\* returns None.
C8_TypeSelectsLoader ==
    op.name = "load_message_prompt_template_from_j2" =>
        IF op.message_type \in {"system", "human", "ai"}
        THEN /\ reads = <<Read(Path(op.arg), "utf-8")>>
             /\ op.file.exists =>
                   /\ ret.cls = ClassOfType(op.message_type)
                   /\ ret.template = op.file.text
        ELSE /\ reads = <<>>
             /\ ret = NoneValue

C8_Witness ==
    /\ op.name = "load_message_prompt_template_from_j2"
    /\ op.message_type = "tool"
    /\ op.file.exists
    /\ ret.cls = "NoneType"

====
